---- MODULE Spec2Model ----
(***************************************************************************)
(* GoogleEarthEnterpriseTerrainProvider: the terrain cache, the per-node   *)
(* terrain state, and the sharing of one fetch+decode between the calls of *)
(* requestTileGeometry that resolve to the same quad key.                  *)
(***************************************************************************)
EXTENDS Integers, Sequences, FiniteSets, TLC

VARIABLES
    dir,              \* the directory metadata: quad key -> "absent" | "plain" | "terrain"
    syncThen,         \* the promise library runs handlers synchronously on settlement
    terrainState,     \* info.terrainState of every quad key
    cache,            \* TerrainCache._terrainCache
    lastTidy,         \* TerrainCache._lastTidy
    now,              \* JulianDate.now(), in seconds
    terrainPromises,  \* provider._terrainPromises: quad key -> fetch id, 0 when undefined
    terrainRequests,  \* provider._terrainRequests: quad key -> fetch issued with the request, 0 when undefined
    fetches,          \* every fetch+decode issued, in order of issue, with the calls waiting on it
    jobs,             \* the promise handlers still to run for the settled shared promise
    handed,           \* the buffers TerrainCache.get has returned
    failed,           \* the quad keys a call was rejected for, other than by cancellation
    last,             \* the operation that produced this state
    tile              \* a HeightmapTerrainData: its fields and its pending tessellations

vars == <<dir, syncThen, terrainState, cache, lastTidy, now, terrainPromises,
          terrainRequests, fetches, jobs, handed, failed, last, tile>>

----------------------------------------------------------------------------
(* Bounds *)

MaxWaiters == 1
MaxFetches == 2
MaxTime == 11
MaxCount == 2
MaxClock == 22
MaxTasks == 2
MaxCoord == 1
MaxElements == 3
MaxSide == 3
MaxSeed == 2
Steps == 2

(* Program constants *)

TidyInterval == 10

----------------------------------------------------------------------------
(* Quad keys and the directory *)

Nodes == {<<0>>, <<0, 1>>, <<0, 1, 1>>}

Parent(n) == SubSeq(n, 1, Len(n) - 1)

Child(n, j) == Append(n, j)

\* metadata.getTileInformationFromQuadKey(quadKey) is defined
InfoDefined(d, n) == n \in DOMAIN d /\ d[n] # "absent"

\* info.hasTerrain()
HasTerrain(d, n) == InfoDefined(d, n) /\ d[n] = "terrain"

\* info.ancestorHasTerrain: the node or one of its ancestors has terrain
AncestorHasTerrain(d, n) ==
    \E k \in 1..Len(n) : HasTerrain(d, SubSeq(n, 1, k))

Directory(top, mid, low) ==
    [n \in Nodes |-> IF Len(n) = 1 THEN top ELSE IF Len(n) = 2 THEN mid ELSE low]

\* the directories explored: terrain at every level above a leaf without; terrain
\* only at the top; no terrain at all; a top tile whose children have no
\* metadata; terrain that starts below the top
Directories ==
    {Directory("terrain", "terrain", "plain"),
     Directory("terrain", "plain", "plain"),
     Directory("plain", "plain", "plain"),
     Directory("terrain", "absent", "absent"),
     Directory("plain", "terrain", "terrain")}

TerrainState == {"UNKNOWN", "NONE", "SELF", "PARENT"}

----------------------------------------------------------------------------
(* TerrainCache *)

NoBuffer == <<0, 0>>

NoEntry == [buffer |-> NoBuffer, timestamp |-> 0]

\* TerrainCache.prototype.add
CacheAdd(c, quadKey, buffer, t) ==
    [c EXCEPT ![quadKey] = [buffer |-> buffer, timestamp |-> t]]

\* TerrainCache.prototype.get: the buffer returned, NoBuffer when undefined
CacheGetResult(c, quadKey) == c[quadKey].buffer

\* a get that returns the buffer and keeps the entry
CacheGetKeeps(c, quadKey) == c

\* TerrainCache.prototype.get: the cache it leaves
CacheGetCache(c, quadKey) ==
    IF c[quadKey] # NoEntry THEN [c EXCEPT ![quadKey] = NoEntry] ELSE c

\* a tidy that sweeps on every call
TidyDueAlways(t, lt) == TRUE

\* TerrainCache.prototype.tidy: the sweep is due
TidyDue(t, lt) == t - lt > TidyInterval

\* a sweep that evicts an entry as soon as its age reaches the interval
TidyCacheAtInterval(c, t, lt) ==
    IF TidyDue(t, lt)
    THEN [k \in DOMAIN c |->
            IF c[k] # NoEntry /\ t - c[k].timestamp >= TidyInterval
            THEN NoEntry ELSE c[k]]
    ELSE c

\* TerrainCache.prototype.tidy: the cache it leaves
TidyCache(c, t, lt) ==
    IF TidyDue(t, lt)
    THEN [k \in Nodes |->
            IF c[k] # NoEntry /\ t - c[k].timestamp > TidyInterval
            THEN NoEntry ELSE c[k]]
    ELSE c

\* TerrainCache.prototype.tidy: the _lastTidy it leaves
TidyLast(t, lt) == IF TidyDue(t, lt) THEN t ELSE lt

----------------------------------------------------------------------------
(* requestTileGeometry: the synchronous part *)

\* a call that marks the tile SELF as soon as it probes it
ProbedAsSelf(ts, quadKey) == [ts EXCEPT ![quadKey] = "SELF"]

\* terrainState after "if (!defined(terrainState)) terrainState = UNKNOWN": a state
\* never set reads as UNKNOWN, so the two are one value here
Probed(ts, quadKey) == ts

\* the switch on terrainState: the quad key q the terrain is fetched from
TargetKey(d, ts, quadKey) ==
    CASE ts[quadKey] = "SELF" -> quadKey
      [] ts[quadKey] = "PARENT" -> Parent(quadKey)
      [] ts[quadKey] = "UNKNOWN" ->
            IF HasTerrain(d, quadKey) THEN quadKey ELSE Parent(quadKey)
      [] OTHER -> quadKey

\* the switch on terrainState: terrainVersion >= 0
VersionKnown(d, ts, quadKey) ==
    CASE ts[quadKey] = "SELF" -> TRUE
      [] ts[quadKey] = "PARENT" -> TRUE
      [] ts[quadKey] = "UNKNOWN" ->
            HasTerrain(d, quadKey) \/ HasTerrain(d, Parent(quadKey))
      [] OTHER -> FALSE

\* a call that never takes the tile to lie above every level with terrain
ReachedTerrainAlways(d, quadKey) == TRUE

\* "if (!info.ancestorHasTerrain)" fails: a level with terrain has been reached
ReachedTerrain(d, quadKey) == AncestorHasTerrain(d, quadKey)

\* a call waiting on a shared promise: the quad key it asked for, whether it
\* passed a request, and sharedRequest (the fetch that request was issued with,
\* 0 when undefined)
Waiting(quadKey, hasRequest, shared) ==
    [path |-> quadKey, hasRequest |-> hasRequest, shared |-> shared]

NoCall == Waiting(<<>>, FALSE, 0)

\* a fetch whose promise has settled and whose handlers have all run
Retired ==
    [q |-> <<>>, stage |-> "retired", reason |-> "", request |-> "NOREQUEST",
     count |-> 0, issuer |-> NoCall, waiters |-> <<>>]

Event(op, quadKey, fid, n) == [op |-> op, path |-> quadKey]

Idle == jobs = <<>>

\* no HeightmapTerrainData is under observation
NoTile == [buffer |-> FALSE]

Init ==
    /\ dir \in Directories
    /\ syncThen \in BOOLEAN
    /\ terrainState = [n \in Nodes |-> "UNKNOWN"]
    /\ cache = [n \in Nodes |-> NoEntry]
    /\ lastTidy = 0
    /\ now = 0
    /\ terrainPromises = [n \in Nodes |-> 0]
    /\ terrainRequests = [n \in Nodes |-> 0]
    /\ fetches = <<>>
    /\ jobs = <<>>
    /\ handed = {}
    /\ failed = {}
    /\ last = Event("Init", <<>>, 0, 0)
    /\ tile = NoTile

\* "if (!defined(info)) return when.reject(...)"
RequestNotExist(quadKey, hasRequest) ==
    /\ Idle
    /\ ~InfoDefined(dir, quadKey)
    /\ last' = Event("RequestNotExist", quadKey, 0, 0)
    /\ UNCHANGED <<tile, dir, syncThen, terrainState, cache, lastTidy, now,
                   terrainPromises, terrainRequests, fetches, jobs, handed, failed>>

\* "If its in the cache, return it"
RequestCacheHit(quadKey, hasRequest) ==
    /\ Idle
    /\ InfoDefined(dir, quadKey)
    /\ CacheGetResult(cache, quadKey) # NoBuffer
    /\ terrainState' = Probed(terrainState, quadKey)
    /\ cache' = CacheGetCache(cache, quadKey)
    /\ handed' = handed \cup {CacheGetResult(cache, quadKey)}
    /\ last' = Event("RequestCacheHit", quadKey, 0, 0)
    /\ UNCHANGED <<tile, dir, syncThen, lastTidy, now, terrainPromises,
                   terrainRequests, fetches, jobs, failed>>

\* what every call that misses the cache does first: probe the state, tidy the cache
Missed(quadKey) ==
    /\ Idle
    /\ InfoDefined(dir, quadKey)
    /\ CacheGetResult(cache, quadKey) = NoBuffer
    /\ terrainState' = Probed(terrainState, quadKey)
    /\ cache' = TidyCache(CacheGetCache(cache, quadKey), now, lastTidy)
    /\ lastTidy' = TidyLast(now, lastTidy)
    /\ UNCHANGED <<tile, dir, syncThen, now, jobs, handed>>

\* "We haven't reached a level with terrain, so return the ellipsoid"
RequestFlat(quadKey, hasRequest) ==
    /\ Missed(quadKey)
    /\ ~ReachedTerrain(dir, quadKey)
    /\ last' = Event("RequestFlat", quadKey, 0, 0)
    /\ UNCHANGED <<terrainPromises, terrainRequests, fetches, failed>>

\* "Already have info and there isn't any terrain here"
RequestNone(quadKey, hasRequest) ==
    /\ Missed(quadKey)
    /\ ReachedTerrain(dir, quadKey)
    /\ terrainState'[quadKey] = "NONE"
    /\ last' = Event("RequestNone", quadKey, 0, 0)
    /\ UNCHANGED <<terrainPromises, terrainRequests, fetches, failed>>

\* the call reaches "Figure out where we are getting the terrain and what version"
Resolving(quadKey) ==
    /\ Missed(quadKey)
    /\ ReachedTerrain(dir, quadKey)
    /\ terrainState'[quadKey] # "NONE"

\* "We can't figure out where to get the terrain"
RequestNoVersion(quadKey, hasRequest) ==
    /\ Resolving(quadKey)
    /\ ~VersionKnown(dir, terrainState', quadKey)
    /\ last' = Event("RequestNoVersion", quadKey, 0, 0)
    /\ UNCHANGED <<terrainPromises, terrainRequests, fetches, failed>>

\* a call that never finds the promise of q and always issues its own fetch
SharesNever(tp, q) == FALSE

\* "if (defined(terrainPromises[q]))": already being loaded
SharesPromise(tp, q) == tp[q] # 0

\* "Already being loaded possibly from another child, so return existing promise"
RequestAttach(quadKey, hasRequest) ==
    /\ Resolving(quadKey)
    /\ VersionKnown(dir, terrainState', quadKey)
    /\ LET q == TargetKey(dir, terrainState', quadKey)
           f == terrainPromises[q]
       IN /\ SharesPromise(terrainPromises, q)
          /\ fetches' = [fetches EXCEPT ![f].waiters =
                Append(@, Waiting(quadKey, hasRequest, terrainRequests[q]))]
          /\ last' = Event("RequestAttach", quadKey, f, 0)
    /\ UNCHANGED <<terrainPromises, terrainRequests, failed>>

\* "if (!defined(requestPromise)) return undefined; // Throttled"
RequestThrottled(quadKey) ==
    /\ Resolving(quadKey)
    /\ VersionKnown(dir, terrainState', quadKey)
    /\ ~SharesPromise(terrainPromises, TargetKey(dir, terrainState', quadKey))
    /\ last' = Event("RequestThrottled", quadKey, 0, 0)
    /\ UNCHANGED <<terrainPromises, terrainRequests, fetches, failed>>

\* "Create new request for terrain": the fetch is issued and registered under q
RequestIssue(quadKey, hasRequest) ==
    /\ Resolving(quadKey)
    /\ VersionKnown(dir, terrainState', quadKey)
    /\ LET q == TargetKey(dir, terrainState', quadKey)
           f == Len(fetches) + 1
           shared == IF hasRequest THEN f ELSE 0
       IN /\ ~SharesPromise(terrainPromises, q)
          /\ fetches' = Append(fetches,
                [q |-> q, stage |-> "fetching", reason |-> "",
                 request |-> IF hasRequest THEN "ACTIVE" ELSE "NOREQUEST",
                 count |-> 0,
                 issuer |-> Waiting(quadKey, hasRequest, shared),
                 waiters |-> <<>>])
          /\ terrainPromises' = [terrainPromises EXCEPT ![q] = f]
          /\ terrainRequests' = [terrainRequests EXCEPT ![q] = shared]
          /\ last' = Event("RequestIssue", quadKey, f, 0)
    /\ UNCHANGED failed

\* the clock advances by d seconds
Tick(d) ==
    /\ Idle
    /\ now + d <= MaxTime
    /\ now' = now + d
    /\ last' = Event("Tick", <<>>, 0, d)
    /\ UNCHANGED <<tile, dir, syncThen, terrainState, cache, lastTidy, terrainPromises,
                   terrainRequests, fetches, jobs, handed, failed>>

\* an answer taken from the directory alone, whatever the terrain state
GetTileDataAvailableByDirectory(d, ts, quadKey) ==
    InfoDefined(d, quadKey)

\* getTileDataAvailable(x, y, level): false without metadata; true above every
\* level with terrain; false in state NONE; false in state UNKNOWN when neither
\* the tile nor its parent has terrain; true otherwise
GetTileDataAvailable(d, ts, quadKey) ==
    IF ~InfoDefined(d, quadKey) THEN FALSE
    ELSE IF ~AncestorHasTerrain(d, quadKey) THEN TRUE
    ELSE IF ts[quadKey] = "NONE" THEN FALSE
    ELSE IF ts[quadKey] = "UNKNOWN" /\ ~HasTerrain(d, quadKey)
            /\ ~(InfoDefined(d, Parent(quadKey)) /\ HasTerrain(d, Parent(quadKey)))
         THEN FALSE
         ELSE TRUE

----------------------------------------------------------------------------
(* requestTileGeometry: the fetch, the decode and the shared promise *)

Job(kind, call, f, ok) == [kind |-> kind, call |-> call, fid |-> f, ok |-> ok]

\* the handlers registered on the shared promise, in the order of registration:
\* the issuer's always() first, then the then() of every call that attached
Handlers(f, ok) ==
    <<Job("always", fetches[f].issuer, f, ok)>>
    \o [i \in 1..Len(fetches[f].waiters) |-> Job("then", fetches[f].waiters[i], f, ok)]

Fetching(f) == f \in 1..Len(fetches) /\ fetches[f].stage = "fetching"

Decoding(f) == f \in 1..Len(fetches) /\ fetches[f].stage = "decoding"

\* the promise of fetchArrayBuffer resolves with a buffer: the decode task is scheduled
FetchOk(f) ==
    /\ Idle
    /\ Fetching(f)
    /\ fetches' = [fetches EXCEPT ![f].stage = "decoding"]
    /\ last' = Event("FetchOk", fetches[f].q, f, 0)
    /\ UNCHANGED <<tile, dir, syncThen, terrainState, cache, lastTidy, now,
                   terrainPromises, terrainRequests, jobs, handed, failed>>

\* the fetch fails ("fail"), or resolves with no buffer ("empty"): the shared
\* promise is rejected
FetchFail(f, reason) ==
    /\ Idle
    /\ Fetching(f)
    /\ fetches' = [fetches EXCEPT ![f].stage = "rejected", ![f].reason = reason]
    /\ jobs' = Handlers(f, FALSE)
    /\ last' = Event("FetchFail", fetches[f].q, f, 0)
    /\ UNCHANGED <<tile, dir, syncThen, terrainState, cache, lastTidy, now,
                   terrainPromises, terrainRequests, handed, failed>>

\* the request scheduler cancels the issuer's request: its state becomes
\* CANCELLED and the fetch promise is rejected
FetchCancel(f) ==
    /\ Idle
    /\ Fetching(f)
    /\ fetches[f].request = "ACTIVE"
    /\ fetches' = [fetches EXCEPT ![f].stage = "rejected", ![f].reason = "cancel",
                                  ![f].request = "CANCELLED"]
    /\ jobs' = Handlers(f, FALSE)
    /\ last' = Event("FetchCancel", fetches[f].q, f, 0)
    /\ UNCHANGED <<tile, dir, syncThen, terrainState, cache, lastTidy, now,
                   terrainPromises, terrainRequests, handed, failed>>

\* a decode handler that stores a child without looking for its metadata
ChildStoredAlways(d, childKey) == childKey \in Nodes

\* the decode handler: "if (defined(child))"
ChildStored(d, childKey) == InfoDefined(d, childKey)

\* the children of q the decode handler stores: those below count that have metadata
StoredChildren(d, q, count) ==
    {j \in 0..(count - 1) : ChildStored(d, Child(q, j))}

\* the decode handler: "requestedInfo.terrainState = SELF", then for every j
\* below count "child.terrainState = PARENT" when the child has metadata
RECURSIVE MarkChildren(_, _, _, _, _)
MarkChildren(ts, d, q, j, count) ==
    IF j >= count THEN ts
    ELSE MarkChildren(
            IF ChildStored(d, Child(q, j))
            THEN [ts EXCEPT ![Child(q, j)] = "PARENT"] ELSE ts,
            d, q, j + 1, count)

DecodedState(ts, d, q, count) ==
    MarkChildren([ts EXCEPT ![q] = "SELF"], d, q, 0, count)

\* the decode handler: terrainCache.add(q, terrainTiles[0]), then for every j
\* below count terrainCache.add(childKey, terrainTiles[j + 1]) when the child
\* has metadata; the buffer terrainTiles[i] of fetch f is <<f, i>>
RECURSIVE AddChildren(_, _, _, _, _, _, _)
AddChildren(c, d, q, f, j, count, t) ==
    IF j >= count THEN c
    ELSE AddChildren(
            IF ChildStored(d, Child(q, j))
            THEN CacheAdd(c, Child(q, j), <<f, j + 1>>, t) ELSE c,
            d, q, f, j + 1, count, t)

DecodedCache(c, d, q, f, count, t) ==
    AddChildren(CacheAdd(c, q, <<f, 0>>, t), d, q, f, 0, count, t)

\* the decode task resolves with terrainTiles, count = terrainTiles.length - 1
DecodeOk(f, count) ==
    /\ Idle
    /\ Decoding(f)
    /\ terrainState' = DecodedState(terrainState, dir, fetches[f].q, count)
    /\ cache' = DecodedCache(cache, dir, fetches[f].q, f, count, now)
    /\ fetches' = [fetches EXCEPT ![f].stage = "fulfilled", ![f].count = count]
    /\ jobs' = Handlers(f, TRUE)
    /\ last' = Event("DecodeOk", fetches[f].q, f, count)
    /\ UNCHANGED <<tile, dir, syncThen, lastTidy, now, terrainPromises,
                   terrainRequests, handed, failed>>

\* the decode task rejects
DecodeFail(f) ==
    /\ Idle
    /\ Decoding(f)
    /\ fetches' = [fetches EXCEPT ![f].stage = "rejected", ![f].reason = "decode"]
    /\ jobs' = Handlers(f, FALSE)
    /\ last' = Event("DecodeFail", fetches[f].q, f, 0)
    /\ UNCHANGED <<tile, dir, syncThen, terrainState, cache, lastTidy, now,
                   terrainPromises, terrainRequests, handed, failed>>

----------------------------------------------------------------------------
(* The handlers of the settled shared promise *)

\* a promise library that never runs the handler of the promise a handler settles
ChainDropped(js, j) == js

\* the promise a handler settles runs its own handler next: at once when the
\* library is synchronous, after the handlers already queued when it is not
Chain(js, j) == IF syncThen THEN <<j>> \o js ELSE Append(js, j)

\* the record of a fetch is dropped once the last handler of its promise has run
Retire(fs, f, js) == IF js = <<>> THEN [fs EXCEPT ![f] = Retired] ELSE fs

\* a clean-up registered with then(): it runs on fulfilment only
AlwaysOnFulfilment(ok) == ok

\* the always() handler runs on fulfilment and on rejection alike
AlwaysRuns(ok) == TRUE

\* "delete terrainPromises[q]"
Deleted(tp, q) == [tp EXCEPT ![q] = 0]

\* the issuer's always(): the entries of q are deleted; always() is
\* then(callback, callback), so the promise it returns is fulfilled with the
\* callback's result and the issuer's then() runs on either outcome
RunAlways ==
    /\ jobs # <<>>
    /\ Head(jobs).kind = "always"
    /\ LET j == Head(jobs)
           q == fetches[j.fid].q
       IN /\ terrainPromises' =
                IF AlwaysRuns(j.ok) THEN Deleted(terrainPromises, q) ELSE terrainPromises
          /\ terrainRequests' =
                IF AlwaysRuns(j.ok) THEN Deleted(terrainRequests, q) ELSE terrainRequests
          /\ jobs' = Chain(Tail(jobs), Job("then", j.call, j.fid, TRUE))
          /\ last' = Event("RunAlways", j.call.path, j.fid, 0)
    /\ UNCHANGED <<tile, dir, syncThen, terrainState, cache, lastTidy, now, fetches,
                   handed, failed>>

\* then(): "var buffer = terrainCache.get(quadKey); if (defined(buffer)) ..."
RunThenHit ==
    /\ jobs # <<>>
    /\ Head(jobs).kind = "then"
    /\ Head(jobs).ok
    /\ LET j == Head(jobs)
           quadKey == j.call.path
       IN /\ CacheGetResult(cache, quadKey) # NoBuffer
          /\ cache' = CacheGetCache(cache, quadKey)
          /\ handed' = handed \cup {CacheGetResult(cache, quadKey)}
          /\ jobs' = Tail(jobs)
          /\ fetches' = Retire(fetches, j.fid, jobs')
          /\ last' = Event("RunThenHit", quadKey, j.fid, 0)
    /\ UNCHANGED <<tile, dir, syncThen, terrainState, lastTidy, now, terrainPromises,
                   terrainRequests, failed>>

\* then(): "return when.reject(new RuntimeError('Failed to load terrain.'))"
RunThenMiss ==
    /\ jobs # <<>>
    /\ Head(jobs).kind = "then"
    /\ Head(jobs).ok
    /\ LET j == Head(jobs)
           quadKey == j.call.path
       IN /\ CacheGetResult(cache, quadKey) = NoBuffer
          /\ cache' = CacheGetCache(cache, quadKey)
          /\ jobs' = Chain(Tail(jobs), Job("otherwise", j.call, j.fid, FALSE))
          /\ last' = Event("RunThenMiss", quadKey, j.fid, 0)
    /\ UNCHANGED <<tile, dir, syncThen, terrainState, lastTidy, now, terrainPromises,
                   terrainRequests, fetches, handed, failed>>

\* then() of a call attached to a rejected promise: the rejection passes to otherwise()
RunThenSkip ==
    /\ jobs # <<>>
    /\ Head(jobs).kind = "then"
    /\ ~Head(jobs).ok
    /\ LET j == Head(jobs)
       IN /\ jobs' = Chain(Tail(jobs), Job("otherwise", j.call, j.fid, FALSE))
          /\ last' = Event("RunThenSkip", j.call.path, j.fid, 0)
    /\ UNCHANGED <<tile, dir, syncThen, terrainState, cache, lastTidy, now,
                   terrainPromises, terrainRequests, fetches, handed, failed>>

\* otherwise(): "sharedRequest.state === RequestState.CANCELLED"
SharedCancelled(fs, call) ==
    call.shared # 0 /\ fs[call.shared].request = "CANCELLED"

\* otherwise(): the handler throws a TypeError, reading the state of an undefined
\* sharedRequest or writing the state of an undefined request
OtherwiseThrows(fs, call) ==
    \/ call.shared = 0
    \/ SharedCancelled(fs, call) /\ ~call.hasRequest

\* otherwise(): reading sharedRequest.state throws, sharedRequest being undefined;
\* the call is rejected with the TypeError and the terrain state is left as it was
RunOtherwiseThrowRead ==
    /\ jobs # <<>>
    /\ Head(jobs).kind = "otherwise"
    /\ LET j == Head(jobs)
       IN /\ j.call.shared = 0
          /\ OtherwiseThrows(fetches, j.call)
          /\ jobs' = Tail(jobs)
          /\ fetches' = Retire(fetches, j.fid, jobs')
          /\ failed' = failed \cup {j.call.path}
          /\ last' = Event("RunOtherwiseThrowRead", j.call.path, j.fid, 0)
    /\ UNCHANGED <<tile, dir, syncThen, terrainState, cache, lastTidy, now,
                   terrainPromises, terrainRequests, handed>>

\* otherwise(): the shared request is cancelled and writing request.state throws,
\* request being undefined; the call is rejected with the TypeError
RunOtherwiseThrowWrite ==
    /\ jobs # <<>>
    /\ Head(jobs).kind = "otherwise"
    /\ LET j == Head(jobs)
       IN /\ j.call.shared # 0
          /\ OtherwiseThrows(fetches, j.call)
          /\ jobs' = Tail(jobs)
          /\ fetches' = Retire(fetches, j.fid, jobs')
          /\ last' = Event("RunOtherwiseThrowWrite", j.call.path, j.fid, 0)
    /\ UNCHANGED <<tile, dir, syncThen, terrainState, cache, lastTidy, now,
                   terrainPromises, terrainRequests, handed, failed>>

\* otherwise(): "request.state = sharedRequest.state; return when.reject(error)"
RunOtherwiseCancelled ==
    /\ jobs # <<>>
    /\ Head(jobs).kind = "otherwise"
    /\ LET j == Head(jobs)
       IN /\ ~OtherwiseThrows(fetches, j.call)
          /\ SharedCancelled(fetches, j.call)
          /\ jobs' = Tail(jobs)
          /\ fetches' = Retire(fetches, j.fid, jobs')
          /\ last' = Event("RunOtherwiseCancelled", j.call.path, j.fid, 0)
    /\ UNCHANGED <<tile, dir, syncThen, terrainState, cache, lastTidy, now,
                   terrainPromises, terrainRequests, handed, failed>>

\* otherwise(): "info.terrainState = TerrainState.NONE"
Demoted(ts, quadKey) == [ts EXCEPT ![quadKey] = "NONE"]

\* otherwise(): "info.terrainState = TerrainState.NONE; return when.reject(error)"
RunOtherwiseNone ==
    /\ jobs # <<>>
    /\ Head(jobs).kind = "otherwise"
    /\ LET j == Head(jobs)
       IN /\ ~OtherwiseThrows(fetches, j.call)
          /\ ~SharedCancelled(fetches, j.call)
          /\ terrainState' = Demoted(terrainState, j.call.path)
          /\ jobs' = Tail(jobs)
          /\ fetches' = Retire(fetches, j.fid, jobs')
          /\ failed' = failed \cup {j.call.path}
          /\ last' = Event("RunOtherwiseNone", j.call.path, j.fid, 0)
    /\ UNCHANGED <<tile, dir, syncThen, cache, lastTidy, now, terrainPromises,
                   terrainRequests, handed>>

----------------------------------------------------------------------------
(* The specification *)

TickSteps == {TidyInterval + 1}

FetchIds == 1..MaxFetches

\* the shared promise a call for quadKey would attach to has room for one more call
Attachable(quadKey) ==
    LET ts == Probed(terrainState, quadKey)
        f == terrainPromises[TargetKey(dir, ts, quadKey)]
    IN InfoDefined(dir, quadKey) /\ VersionKnown(dir, ts, quadKey)
       /\ f # 0 /\ Len(fetches[f].waiters) < MaxWaiters

Next ==
    \/ \E quadKey \in Nodes, hasRequest \in BOOLEAN :
            \/ RequestNotExist(quadKey, hasRequest)
            \/ RequestCacheHit(quadKey, hasRequest)
            \/ RequestFlat(quadKey, hasRequest)
            \/ RequestNone(quadKey, hasRequest)
            \/ RequestNoVersion(quadKey, hasRequest)
            \/ (Attachable(quadKey) /\ RequestAttach(quadKey, hasRequest))
            \/ (hasRequest /\ RequestThrottled(quadKey))
            \/ (Len(fetches) < MaxFetches /\ RequestIssue(quadKey, hasRequest))
    \/ \E f \in FetchIds : FetchOk(f)
    \/ \E f \in FetchIds, reason \in {"fail", "empty"} : FetchFail(f, reason)
    \/ \E f \in FetchIds : FetchCancel(f)
    \/ \E f \in FetchIds, count \in 0..MaxCount : DecodeOk(f, count)
    \/ \E f \in FetchIds : DecodeFail(f)
    \/ RunAlways
    \/ RunThenHit
    \/ RunThenMiss
    \/ RunThenSkip
    \/ RunOtherwiseThrowRead
    \/ RunOtherwiseThrowWrite
    \/ RunOtherwiseCancelled
    \/ RunOtherwiseNone
    \/ \E d \in TickSteps : Tick(d)

Spec == Init /\ [][Next]_vars

\* the fetch f settles: it resolves, fails or is cancelled
FetchSettles(f) ==
    FetchOk(f) \/ (\E reason \in {"fail", "empty"} : FetchFail(f, reason)) \/ FetchCancel(f)

\* the decode of f settles: it resolves or rejects
DecodeSettles(f) ==
    (\E count \in 0..MaxCount : DecodeOk(f, count)) \/ DecodeFail(f)

\* the promise library runs the next handler of a settled promise
RunHandler ==
    \/ RunAlways
    \/ RunThenHit
    \/ RunThenMiss
    \/ RunThenSkip
    \/ RunOtherwiseThrowRead
    \/ RunOtherwiseThrowWrite
    \/ RunOtherwiseCancelled
    \/ RunOtherwiseNone

\* every fetch and every decode settles in the end, and the handlers of a
\* settled promise are run
Fairness ==
    /\ \A f \in FetchIds : WF_vars(FetchSettles(f))
    /\ \A f \in FetchIds : WF_vars(DecodeSettles(f))
    /\ WF_vars(RunHandler)

LiveSpec == Spec /\ Fairness

TypeOK ==
    /\ dir \in Directories
    /\ terrainState \in [Nodes -> TerrainState]
    /\ now \in 0..MaxTime
    /\ Len(fetches) <= MaxFetches

----------------------------------------------------------------------------
(* TerrainCache on its own: add, get and tidy called at any time *)

CacheKeys == {<<0>>, <<0, 1>>}

\* the buffer stored under quadKey
BufferOf(quadKey) == <<1, Len(quadKey)>>

CacheEvent(op, quadKey, buffer, evicted) ==
    [op |-> op, path |-> quadKey, buffer |-> buffer, evicted |-> evicted]

\* the provider around the cache stays as constructed
ProviderRests ==
    UNCHANGED <<tile, dir, syncThen, terrainState, terrainPromises, terrainRequests,
                fetches, jobs, handed, failed>>

CacheInit ==
    /\ dir = Directory("terrain", "terrain", "plain")
    /\ syncThen = FALSE
    /\ terrainState = [n \in Nodes |-> "UNKNOWN"]
    /\ cache = [n \in Nodes |-> NoEntry]
    /\ lastTidy = 0
    /\ now = 0
    /\ terrainPromises = [n \in Nodes |-> 0]
    /\ terrainRequests = [n \in Nodes |-> 0]
    /\ fetches = <<>>
    /\ jobs = <<>>
    /\ handed = {}
    /\ failed = {}
    /\ last = CacheEvent("new", <<>>, NoBuffer, {})
    /\ tile = NoTile

\* terrainCache.add(quadKey, buffer)
CacheAddCall(quadKey) ==
    /\ cache' = CacheAdd(cache, quadKey, BufferOf(quadKey), now)
    /\ last' = CacheEvent("add", quadKey, NoBuffer, {})
    /\ UNCHANGED <<lastTidy, now>>
    /\ ProviderRests

\* terrainCache.get(quadKey)
CacheGetCall(quadKey) ==
    /\ cache' = CacheGetCache(cache, quadKey)
    /\ last' = CacheEvent("get", quadKey, CacheGetResult(cache, quadKey), {})
    /\ UNCHANGED <<lastTidy, now>>
    /\ ProviderRests

\* terrainCache.tidy()
CacheTidyCall ==
    /\ cache' = TidyCache(cache, now, lastTidy)
    /\ lastTidy' = TidyLast(now, lastTidy)
    /\ last' = CacheEvent("tidy", <<>>, NoBuffer,
                          {k \in Nodes : cache[k] # NoEntry /\ cache'[k] = NoEntry})
    /\ UNCHANGED now
    /\ ProviderRests

\* a second passes
CacheTick ==
    /\ now < MaxClock
    /\ now' = now + 1
    /\ last' = CacheEvent("tick", <<>>, NoBuffer, {})
    /\ UNCHANGED <<cache, lastTidy>>
    /\ ProviderRests

CacheNext ==
    \/ \E quadKey \in CacheKeys : CacheAddCall(quadKey)
    \/ \E quadKey \in CacheKeys : CacheGetCall(quadKey)
    \/ CacheTidyCall
    \/ CacheTick

CacheSpec == CacheInit /\ [][CacheNext]_vars

----------------------------------------------------------------------------
(* computeChildMask, applied to a tile and its four children *)

MaskNodes == {<<0>>} \cup {Child(<<0>>, i) : i \in 0..3}

\* "mask & (1 << i)" is not zero
Bit(mask, i) == (mask \div (2 ^ i)) % 2 = 1

\* "mask |= (1 << i)"
SetBit(mask, i) == IF Bit(mask, i) THEN mask ELSE mask + 2 ^ i

\* the loop of computeChildMask from child i on
RECURSIVE SynthesizedMask(_, _, _, _)
SynthesizedMask(d, quadKey, i, childMask) ==
    IF i >= 4 THEN childMask
    ELSE SynthesizedMask(d, quadKey, i + 1,
            IF InfoDefined(d, Child(quadKey, i)) /\ HasTerrain(d, Child(quadKey, i))
            THEN SetBit(childMask, i) ELSE childMask)

\* a mask taken from the directory whatever the state of the tile
ComputeChildMaskStored(d, ts, bits, quadKey) == bits

\* computeChildMask(quadKey, info, metadata), bits being info.getChildBitmask()
ComputeChildMask(d, ts, bits, quadKey) ==
    IF ts[quadKey] = "PARENT" THEN SynthesizedMask(d, quadKey, 0, 0) ELSE bits

MaskEvent(quadKey, bits, mask) ==
    [op |-> "computeChildMask", path |-> quadKey, bits |-> bits, mask |-> mask]

MaskInit ==
    /\ dir \in [MaskNodes -> {"absent", "plain", "terrain"}]
    /\ dir[<<0>>] # "absent"
    /\ terrainState \in [MaskNodes -> TerrainState]
    /\ \A n \in MaskNodes \ {<<0>>} : terrainState[n] = "UNKNOWN"
    /\ syncThen = FALSE
    /\ cache = [n \in Nodes |-> NoEntry]
    /\ lastTidy = 0
    /\ now = 0
    /\ terrainPromises = [n \in Nodes |-> 0]
    /\ terrainRequests = [n \in Nodes |-> 0]
    /\ fetches = <<>>
    /\ jobs = <<>>
    /\ handed = {}
    /\ failed = {}
    /\ last = [op |-> "new", path |-> <<>>, bits |-> 0, mask |-> 0]
    /\ tile = NoTile

\* the mask handed out with the tile quadKey
ChildMaskCall(quadKey, bits) ==
    /\ InfoDefined(dir, quadKey)
    /\ last' = MaskEvent(quadKey, bits, ComputeChildMask(dir, terrainState, bits, quadKey))
    /\ UNCHANGED <<tile, dir, syncThen, terrainState, cache, lastTidy, now,
                   terrainPromises, terrainRequests, fetches, jobs, handed, failed>>

MaskNext == \E bits \in 0..15 : ChildMaskCall(<<0>>, bits)

MaskSpec == MaskInit /\ [][MaskNext]_vars

----------------------------------------------------------------------------
(* HeightmapTerrainData: one tile, its buffer, its mesh and its tessellations *)

\* new HeightmapTerrainData(options)
NewTile(childTileMask, createdByUpsampling) ==
    [buffer |-> TRUE, mesh |-> 0, skirtHeight |-> FALSE,
     childTileMask |-> childTileMask, createdByUpsampling |-> createdByUpsampling,
     pending |-> <<>>, scheduled |-> 0]

TileEvent(op, args, result) == [op |-> op, args |-> args, result |-> result]

\* the provider is not involved
ProviderIdle ==
    UNCHANGED <<dir, syncThen, terrainState, cache, lastTidy, now, terrainPromises,
                terrainRequests, fetches, jobs, handed, failed>>

TileInit ==
    /\ tile \in {NewTile(mask, up) : mask \in 0..15, up \in BOOLEAN}
    /\ dir = Directory("terrain", "terrain", "plain")
    /\ syncThen = FALSE
    /\ terrainState = [n \in Nodes |-> "UNKNOWN"]
    /\ cache = [n \in Nodes |-> NoEntry]
    /\ lastTidy = 0
    /\ now = 0
    /\ terrainPromises = [n \in Nodes |-> 0]
    /\ terrainRequests = [n \in Nodes |-> 0]
    /\ fetches = <<>>
    /\ jobs = <<>>
    /\ handed = {}
    /\ failed = {}
    /\ last = TileEvent("new", <<>>, "tile")

\* createMesh: the tessellation is scheduled with the buffer the tile holds now
\* (heightmap is FALSE when _buffer is undefined) and a promise is returned
CreateMesh ==
    /\ tile.scheduled < MaxTasks
    /\ tile' = [tile EXCEPT
            !.skirtHeight = TRUE,
            !.scheduled = @ + 1,
            !.pending = Append(@, [id |-> tile.scheduled + 1, heightmap |-> tile.buffer])]
    /\ last' = TileEvent("createMesh", <<>>, "promise")
    /\ ProviderIdle

\* createMesh: "if (!defined(verticesPromise)) return undefined; // Postponed"
CreateMeshPostponed ==
    /\ tile' = [tile EXCEPT !.skirtHeight = TRUE]
    /\ last' = TileEvent("createMesh", <<>>, "undefined")
    /\ ProviderIdle

\* a completion handler that keeps the buffer it was given
Retained(buffer) == buffer

\* "that._buffer = undefined": free memory received from server
Released(buffer) == FALSE

\* the oldest tessellation completes: the mesh is stored and the buffer released
TessellationDone ==
    /\ tile.pending # <<>>
    /\ Head(tile.pending).heightmap
    /\ tile' = [tile EXCEPT
            !.mesh = Head(tile.pending).id,
            !.buffer = Released(@),
            !.pending = Tail(@)]
    /\ last' = TileEvent("tessellated", <<>>, "mesh")
    /\ ProviderIdle

\* the oldest tessellation fails, as one scheduled without a heightmap does
TessellationFail ==
    /\ tile.pending # <<>>
    /\ tile' = [tile EXCEPT !.pending = Tail(@)]
    /\ last' = TileEvent("tessellated", <<>>, "rejected")
    /\ ProviderIdle

\* _createMeshSync: the mesh is computed and returned, not stored; the buffer is
\* released; without a heightmap computeVertices throws
CreateMeshSync ==
    /\ tile' = [tile EXCEPT !.skirtHeight = TRUE, !.buffer = FALSE]
    /\ last' = TileEvent("_createMeshSync", <<>>, IF tile.buffer THEN "mesh" ELSE "throws")
    /\ ProviderIdle

\* interpolateHeight reads the mesh when it is defined and the buffer otherwise
InterpolateHeightCall ==
    /\ last' = TileEvent("interpolateHeight", <<>>,
                         IF tile.mesh # 0 THEN "mesh"
                         ELSE IF tile.buffer THEN "raster" ELSE "throws")
    /\ UNCHANGED tile
    /\ ProviderIdle

\* an upsample that resamples the raw buffer while there is no mesh
UpsampleResultFromBuffer(t, levelDifference) ==
    IF levelDifference > 1 THEN "throws"
    ELSE IF t.mesh = 0 /\ ~t.buffer THEN "undefined" ELSE "tile"

\* an upsample without the test of the level difference
UpsampleResultUnchecked(t, levelDifference) ==
    IF t.mesh = 0 THEN "undefined" ELSE "tile"

\* upsample: the DeveloperError for more than one level, undefined without a
\* mesh, a new HeightmapTerrainData otherwise
UpsampleResult(t, levelDifference) ==
    IF levelDifference > 1 THEN "throws"
    ELSE IF t.mesh = 0 THEN "undefined" ELSE "tile"

\* upsample(..., descendantLevel) with descendantLevel - thisLevel = levelDifference
Upsample(levelDifference) ==
    /\ last' = TileEvent("upsample", <<levelDifference>>,
                         UpsampleResult(tile, levelDifference))
    /\ UNCHANGED tile
    /\ ProviderIdle

\* a bit number counted from the south-west corner upwards
BitNumberFromSouth(thisX, thisY, childX, childY) ==
    (IF childX # thisX * 2 THEN 1 ELSE 0) + (IF childY # thisY * 2 THEN 2 ELSE 0)

\* isChildAvailable: "var bitNumber = 2; ++bitNumber; bitNumber -= 2;"
BitNumber(thisX, thisY, childX, childY) ==
    2 + (IF childX # thisX * 2 THEN 1 ELSE 0) - (IF childY # thisY * 2 THEN 2 ELSE 0)

\* a tile whose children are all available once one of them is
IsChildAvailableAny(mask, thisX, thisY, childX, childY) == mask # 0

\* isChildAvailable: "(this._childTileMask & (1 << bitNumber)) !== 0"
IsChildAvailable(mask, thisX, thisY, childX, childY) ==
    Bit(mask, BitNumber(thisX, thisY, childX, childY))

IsChildAvailableCall(thisX, thisY, childX, childY) ==
    /\ last' = TileEvent("isChildAvailable", <<thisX, thisY, childX, childY>>,
                IsChildAvailable(tile.childTileMask, thisX, thisY, childX, childY))
    /\ UNCHANGED tile
    /\ ProviderIdle

TileNext ==
    \/ CreateMesh
    \/ CreateMeshPostponed
    \/ TessellationDone
    \/ TessellationFail
    \/ CreateMeshSync
    \/ InterpolateHeightCall
    \/ \E levelDifference \in 1..2 : Upsample(levelDifference)
    \/ \E thisX \in 0..MaxCoord, thisY \in 0..MaxCoord,
          childX \in 0..(2 * MaxCoord + 1), childY \in 0..(2 * MaxCoord + 1) :
            IsChildAvailableCall(thisX, thisY, childX, childY)

TileSpec == TileInit /\ [][TileNext]_vars

----------------------------------------------------------------------------
(* Numbers: the heights and coordinates are fractions <<numerator, denominator>>
   in lowest terms, the arithmetic of the code carried out exactly *)

Abs(n) == IF n < 0 THEN -n ELSE n

RECURSIVE Gcd(_, _)
Gcd(a, b) == IF b = 0 THEN a ELSE Gcd(b, a % b)

\* the fraction n / d, d not zero
Frac(n, d) ==
    LET g == Gcd(Abs(n), Abs(d))
        sign == IF d < 0 THEN -1 ELSE 1
    IN <<sign * (n \div g), sign * (d \div g)>>

Whole(n) == <<n, 1>>

FAdd(a, b) == Frac(a[1] * b[2] + b[1] * a[2], a[2] * b[2])

FSub(a, b) == Frac(a[1] * b[2] - b[1] * a[2], a[2] * b[2])

FMul(a, b) == Frac(a[1] * b[1], a[2] * b[2])

FDiv(a, b) == Frac(a[1] * b[2], a[2] * b[1])

FLess(a, b) == a[1] * b[2] < b[1] * a[2]

\* "x | 0": the integer part, towards zero
Trunc(a) == IF a[1] >= 0 THEN a[1] \div a[2] ELSE -((-a[1]) \div a[2])

RECURSIVE Power(_, _)
Power(b, e) == IF e = 0 THEN 1 ELSE b * Power(b, e - 1)

----------------------------------------------------------------------------
(* getHeight and setHeight: a height in elementsPerHeight elements of a buffer *)

\* the values an element of the typed array holds: an integer array takes the
\* integer part modulo its range, a float array the value
Stored(bufferType, a) ==
    CASE bufferType = "Uint8Array" -> Whole(Trunc(a) % 256)
      [] bufferType = "Uint16Array" -> Whole(Trunc(a) % 65536)
      [] OTHER -> a

\* getHeight, big endian: "for (i = 0; i < elementsPerHeight; ++i)"
RECURSIVE GetHeightUp(_, _, _, _, _, _)
GetHeightUp(heights, elementsPerHeight, elementMultiplier, index, i, height) ==
    IF i >= elementsPerHeight THEN height
    ELSE GetHeightUp(heights, elementsPerHeight, elementMultiplier, index, i + 1,
            FAdd(FMul(height, Whole(elementMultiplier)), heights[index + i]))

\* getHeight, little endian: "for (i = elementsPerHeight - 1; i >= 0; --i)"
RECURSIVE GetHeightDown(_, _, _, _, _)
GetHeightDown(heights, elementMultiplier, index, i, height) ==
    IF i < 0 THEN height
    ELSE GetHeightDown(heights, elementMultiplier, index, i - 1,
            FAdd(FMul(height, Whole(elementMultiplier)), heights[index + i]))

\* getHeight(heights, elementsPerHeight, elementMultiplier, stride, isBigEndian, index)
GetHeight(heights, st, index) ==
    IF st.isBigEndian
    THEN GetHeightUp(heights, st.elementsPerHeight, st.elementMultiplier,
                     index * st.stride, 0, Whole(0))
    ELSE GetHeightDown(heights, st.elementMultiplier, index * st.stride,
                       st.elementsPerHeight - 1, Whole(0))

\* one pass of the loop of setHeight: the element at index + i takes the
\* integer part of height / divisor
SetDigit(heights, bufferType, at, height, divisor) ==
    [heights EXCEPT ![at] = Stored(bufferType, Whole(Trunc(FDiv(height, Whole(divisor)))))]

\* setHeight, big endian: "for (i = 0; i < elementsPerHeight - 1; ++i)", then
\* "heights[index + i] = height"
RECURSIVE SetHeightUp(_, _, _, _, _, _, _, _)
SetHeightUp(heights, bufferType, elementsPerHeight, elementMultiplier, index, i, height, divisor) ==
    IF i >= elementsPerHeight - 1
    THEN [heights EXCEPT ![index + i] = Stored(bufferType, height)]
    ELSE LET written == SetDigit(heights, bufferType, index + i, height, divisor)
         IN SetHeightUp(written, bufferType, elementsPerHeight, elementMultiplier, index,
                i + 1, FSub(height, FMul(written[index + i], Whole(divisor))),
                divisor \div elementMultiplier)

\* setHeight, little endian: "for (i = elementsPerHeight - 1; i > 0; --i)", then
\* "heights[index + i] = height"
RECURSIVE SetHeightDown(_, _, _, _, _, _, _)
SetHeightDown(heights, bufferType, elementMultiplier, index, i, height, divisor) ==
    IF i <= 0
    THEN [heights EXCEPT ![index + i] = Stored(bufferType, height)]
    ELSE LET written == SetDigit(heights, bufferType, index + i, height, divisor)
         IN SetHeightDown(written, bufferType, elementMultiplier, index,
                i - 1, FSub(height, FMul(written[index + i], Whole(divisor))),
                divisor \div elementMultiplier)

\* a setHeight that writes the most significant element first whatever the order
SetHeightAsBigEndian(heights, bufferType, st, index, height) ==
    SetHeightUp(heights, bufferType, st.elementsPerHeight, st.elementMultiplier,
                index * st.stride, 0, height,
                Power(st.elementMultiplier, st.elementsPerHeight - 1))

\* setHeight(heights, elementsPerHeight, elementMultiplier, divisor, stride,
\* isBigEndian, index, height), divisor being
\* Math.pow(elementMultiplier, elementsPerHeight - 1)
SetHeight(heights, bufferType, st, index, height) ==
    IF st.isBigEndian
    THEN SetHeightUp(heights, bufferType, st.elementsPerHeight, st.elementMultiplier,
                     index * st.stride, 0, height,
                     Power(st.elementMultiplier, st.elementsPerHeight - 1))
    ELSE SetHeightDown(heights, bufferType, st.elementMultiplier,
                       index * st.stride, st.elementsPerHeight - 1, height,
                       Power(st.elementMultiplier, st.elementsPerHeight - 1))

BufferTypes == {"Uint8Array", "Uint16Array", "Float32Array"}

\* the layouts of a height: elements per height, stride, multiplier, byte order
Layouts ==
    {[elementsPerHeight |-> e, stride |-> s, elementMultiplier |-> m, isBigEndian |-> b] :
        e \in 1..MaxElements, s \in 1..MaxElements, m \in {2, 3, 256}, b \in BOOLEAN}

\* the heights tried: every small one and those around a power of 256
CodecHeights == 0..(Power(3, MaxElements) - 1) \cup {255, 256, 257, 65535}

CodecEvent(op, result) == [op |-> op, result |-> result]

CodecInit ==
    /\ \E st \in Layouts, bufferType \in BufferTypes, index \in 0..1,
          fill \in 0..1, h \in CodecHeights :
            /\ st.stride >= st.elementsPerHeight
            /\ h < Power(st.elementMultiplier, st.elementsPerHeight)
            /\ tile = [structure |-> st, bufferType |-> bufferType,
                       heights |-> [k \in 0..(2 * st.stride - 1) |-> Whole(fill)],
                       index |-> index, h |-> h, written |-> FALSE]
    /\ dir = Directory("terrain", "terrain", "plain")
    /\ syncThen = FALSE
    /\ terrainState = [n \in Nodes |-> "UNKNOWN"]
    /\ cache = [n \in Nodes |-> NoEntry]
    /\ lastTidy = 0
    /\ now = 0
    /\ terrainPromises = [n \in Nodes |-> 0]
    /\ terrainRequests = [n \in Nodes |-> 0]
    /\ fetches = <<>>
    /\ jobs = <<>>
    /\ handed = {}
    /\ failed = {}
    /\ last = CodecEvent("new", Whole(0))

\* setHeight(heights, ..., index, h)
SetHeightCall ==
    /\ ~tile.written
    /\ tile' = [tile EXCEPT
            !.heights = SetHeight(@, tile.bufferType, tile.structure, tile.index, Whole(tile.h)),
            !.written = TRUE]
    /\ last' = CodecEvent("setHeight", Whole(0))
    /\ ProviderIdle

\* getHeight(heights, ..., index)
GetHeightCall ==
    /\ last' = CodecEvent("getHeight", GetHeight(tile.heights, tile.structure, tile.index))
    /\ UNCHANGED tile
    /\ ProviderIdle

CodecNext == SetHeightCall \/ GetHeightCall

CodecSpec == CodecInit /\ [][CodecNext]_vars

----------------------------------------------------------------------------
(* interpolateHeight, interpolateMeshHeight and triangleInterpolateHeight *)

\* "if (dY < dX)": the point lies in the lower right triangle or on the diagonal
LowerRightOrDiagonal(dX, dY) == ~FLess(dX, dY)

\* "if (dY < dX)": the point lies in the lower right triangle
LowerRight(dX, dY) == FLess(dY, dX)

\* triangleInterpolateHeight(dX, dY, southwestHeight, southeastHeight,
\* northwestHeight, northeastHeight)
TriangleInterpolateHeight(dX, dY, sw, se, nw, ne) ==
    IF LowerRight(dX, dY)
    THEN FAdd(FAdd(sw, FMul(dX, FSub(se, sw))), FMul(dY, FSub(ne, se)))
    ELSE FAdd(FAdd(sw, FMul(dX, FSub(ne, nw))), FMul(dY, FSub(nw, sw)))

\* the cell of a grid of width by height vertices a point falls in, the upper
\* index clamped at edgeX and edgeY: westInteger, eastInteger, southInteger and
\* northInteger (counted from the north row, as the buffer is laid out), dx, dy
Cell(fromWest, fromSouth, width, height, edgeX, edgeY) ==
    LET w0 == Trunc(fromWest)
        clampX == w0 + 1 >= edgeX
        westInteger == IF clampX THEN width - 2 ELSE w0
        eastInteger == IF clampX THEN width - 1 ELSE w0 + 1
        s0 == Trunc(fromSouth)
        clampY == s0 + 1 >= edgeY
        southInteger == IF clampY THEN height - 2 ELSE s0
        northInteger == IF clampY THEN height - 1 ELSE s0 + 1
    IN [west |-> westInteger, east |-> eastInteger,
        south |-> height - 1 - southInteger, north |-> height - 1 - northInteger,
        dx |-> FSub(fromWest, Whole(westInteger)),
        dy |-> FSub(fromSouth, Whole(southInteger)),
        width |-> width]

\* "(longitude - sourceRectangle.west) * (width - 1) / (east - west)"
FromWest(rectangle, width, longitude) ==
    FDiv(FMul(FSub(longitude, rectangle.west), Whole(width - 1)),
         FSub(rectangle.east, rectangle.west))

\* a distance that is measured from the north edge
FromNorth(rectangle, height, latitude) ==
    FDiv(FMul(FSub(rectangle.north, latitude), Whole(height - 1)),
         FSub(rectangle.north, rectangle.south))

\* "(latitude - sourceRectangle.south) * (height - 1) / (north - south)"
FromSouth(rectangle, height, latitude) ==
    FDiv(FMul(FSub(latitude, rectangle.south), Whole(height - 1)),
         FSub(rectangle.north, rectangle.south))

\* interpolateHeight: the cell of the raster
RasterCell(rectangle, width, height, longitude, latitude) ==
    Cell(FromWest(rectangle, width, longitude), FromSouth(rectangle, height, latitude),
         width, height, width, height)

\* a cell of the widened grid found without the shift by one vertex
MeshCellUnshifted(skirtHeight, rectangle, width, height, longitude, latitude) ==
    Cell(FromWest(rectangle, width, longitude), FromSouth(rectangle, height, latitude),
         width + 2, height + 2, width + 1, height + 1)

\* interpolateMeshHeight: the cell of the mesh, widened by the skirt
MeshCell(skirtHeight, rectangle, width, height, longitude, latitude) ==
    IF skirtHeight > 0
    THEN Cell(FAdd(FromWest(rectangle, width, longitude), Whole(1)),
              FAdd(FromSouth(rectangle, height, latitude), Whole(1)),
              width + 2, height + 2, width + 1, height + 1)
    ELSE Cell(FromWest(rectangle, width, longitude), FromSouth(rectangle, height, latitude),
              width, height, width, height)

\* the indices of the four corners of a cell: "southInteger * width +
\* westInteger" and the like
CornerIndices(cell) ==
    [sw |-> cell.south * cell.width + cell.west,
     se |-> cell.south * cell.width + cell.east,
     nw |-> cell.north * cell.width + cell.west,
     ne |-> cell.north * cell.width + cell.east]

\* interpolateHeight(sourceHeights, elementsPerHeight, elementMultiplier, stride,
\* isBigEndian, sourceRectangle, width, height, longitude, latitude)
InterpolateRaster(heights, st, rectangle, width, height, longitude, latitude) ==
    LET cell == RasterCell(rectangle, width, height, longitude, latitude)
        at == CornerIndices(cell)
        corner(index) == GetHeight(heights, st, index)
    IN TriangleInterpolateHeight(cell.dx, cell.dy,
            corner(at.sw), corner(at.se), corner(at.nw), corner(at.ne))

\* interpolateMeshHeight(buffer, encoding, heightOffset, heightScale, skirtHeight,
\* sourceRectangle, width, height, longitude, latitude, exaggeration)
InterpolateMeshHeight(mesh, st, skirtHeight, rectangle, width, height, longitude, latitude) ==
    LET cell == MeshCell(skirtHeight, rectangle, width, height, longitude, latitude)
        at == CornerIndices(cell)
        corner(index) ==
            FDiv(FSub(FDiv(mesh.vertices[index], Whole(mesh.exaggeration)),
                      Whole(st.heightOffset)),
                 Whole(st.heightScale))
    IN TriangleInterpolateHeight(cell.dx, cell.dy,
            corner(at.sw), corner(at.se), corner(at.nw), corner(at.ne))

----------------------------------------------------------------------------
(* HeightmapTerrainData with its heights: interpolateHeight and upsample *)

\* defaultValue(options[name], value)
DefaultValue(options, name, value) ==
    IF name \in DOMAIN options THEN options[name] ELSE value

\* a buffer or a mesh that is undefined
Undefined == <<>>

NoMesh == [vertices |-> Undefined, exaggeration |-> 1]

\* new HeightmapTerrainData(options); samples keeps the heights the tile was
\* made with, for the properties to compare with
HeightmapTerrainData(options) ==
    [buffer |-> options.buffer,
     width |-> options.width,
     height |-> options.height,
     childTileMask |-> DefaultValue(options, "childTileMask", 15),
     structure |-> options.structure,
     createdByUpsampling |-> DefaultValue(options, "createdByUpsampling", FALSE),
     skirtHeight |-> 0,
     bufferType |-> options.bufferType,
     mesh |-> NoMesh,
     given |-> DOMAIN options,
     samples |-> options.buffer]

\* the vertex heights the tessellator computes from a heightmap: every sample
\* scaled, offset and exaggerated, and around them, when there is a skirt, a
\* ring of the edge vertices lowered by the skirt height
TessellatedVertices(heights, st, width, height, skirtHeight, exaggeration) ==
    LET ring == IF skirtHeight > 0 THEN 1 ELSE 0
        arrayWidth == width + 2 * ring
        arrayHeight == height + 2 * ring
        Clamp(k, top) == IF k < 0 THEN 0 ELSE IF k > top THEN top ELSE k
        Vertex(index) ==
            LET row == (index \div arrayWidth) - ring
                col == (index % arrayWidth) - ring
                sample == GetHeight(heights, st,
                            Clamp(row, height - 1) * width + Clamp(col, width - 1))
                inside == FMul(FAdd(FMul(sample, Whole(st.heightScale)),
                                    Whole(st.heightOffset)), Whole(exaggeration))
            IN IF row \in 0..(height - 1) /\ col \in 0..(width - 1)
               THEN inside ELSE FSub(inside, Whole(skirtHeight))
    IN [index \in 0..(arrayWidth * arrayHeight - 1) |-> Vertex(index)]

\* HeightmapTerrainData.prototype.interpolateHeight(rectangle, longitude, latitude)
InterpolateHeight(t, rectangle, longitude, latitude) ==
    IF t.mesh.vertices # Undefined
    THEN InterpolateMeshHeight(t.mesh, t.structure, t.skirtHeight, rectangle,
                               t.width, t.height, longitude, latitude)
    ELSE FAdd(FMul(InterpolateRaster(t.buffer, t.structure, rectangle,
                                     t.width, t.height, longitude, latitude),
                   Whole(t.structure.heightScale)),
              Whole(t.structure.heightOffset))

\* HeightmapTerrainData.prototype.wasCreatedByUpsampling()
WasCreatedByUpsampling(t) == t.createdByUpsampling

\* CesiumMath.lerp(p, q, time)
Lerp(p, q, time) == FAdd(FMul(FSub(Whole(1), time), p), FMul(time, q))

\* a clamp that takes a bound that is not configured for zero
ClampedFromZero(st, heightSample) ==
    LET lowest == IF st.lowestEncodedHeight = {} THEN Whole(0)
                  ELSE CHOOSE b \in st.lowestEncodedHeight : TRUE
        highest == IF st.highestEncodedHeight = {} THEN Whole(0)
                   ELSE CHOOSE b \in st.highestEncodedHeight : TRUE
        low == IF FLess(heightSample, lowest) THEN lowest ELSE heightSample
    IN IF FLess(highest, low) THEN highest ELSE low

\* "heightSample < lowestEncodedHeight ? lowestEncodedHeight : heightSample", then
\* the same with highestEncodedHeight; a bound that is undefined has no effect
\* (it is the empty set here, and the set of its value when configured)
Clamped(st, heightSample) ==
    LET low == IF \E b \in st.lowestEncodedHeight : FLess(heightSample, b)
               THEN CHOOSE b \in st.lowestEncodedHeight : TRUE ELSE heightSample
    IN IF \E b \in st.highestEncodedHeight : FLess(b, low)
       THEN CHOOSE b \in st.highestEncodedHeight : TRUE ELSE low

\* upsample: the height sample of the descendant at column i of row j, before
\* it is clamped
UpsampledSample(t, sourceRectangle, destinationRectangle, i, j) ==
    InterpolateMeshHeight(t.mesh, t.structure, t.skirtHeight, sourceRectangle,
        t.width, t.height,
        Lerp(destinationRectangle.west, destinationRectangle.east, Frac(i, t.width - 1)),
        Lerp(destinationRectangle.north, destinationRectangle.south, Frac(j, t.height - 1)))

\* upsample: the height samples handed to setHeight, in the order of the loops
Encoded(t, sourceRectangle, destinationRectangle) ==
    [k \in 0..(t.width * t.height - 1) |->
        Clamped(t.structure,
                UpsampledSample(t, sourceRectangle, destinationRectangle,
                                k % t.width, k \div t.width))]

\* upsample: the loops over j and i, from sample k on
RECURSIVE UpsampledHeights(_, _, _, _)
UpsampledHeights(heights, t, encoded, k) ==
    IF k >= t.width * t.height THEN heights
    ELSE UpsampledHeights(
            SetHeight(heights, t.bufferType, t.structure, k, encoded[k]),
            t, encoded, k + 1)

\* an upsampled tile that takes the child mask of its parent and is not marked
UpsampledLikeParent(t, encoded) ==
    HeightmapTerrainData(
        [buffer |-> UpsampledHeights(
                        [k \in 0..(t.width * t.height * t.structure.stride - 1) |-> Whole(0)],
                        t, encoded, 0),
         width |-> t.width,
         height |-> t.height,
         childTileMask |-> t.childTileMask,
         structure |-> t.structure,
         bufferType |-> t.bufferType])

\* upsample: "new HeightmapTerrainData({buffer : heights, width, height,
\* childTileMask : 0, structure, createdByUpsampling : true})", the heights
\* being those encoded
Upsampled(t, encoded) ==
    HeightmapTerrainData(
        [buffer |-> UpsampledHeights(
                        [k \in 0..(t.width * t.height * t.structure.stride - 1) |-> Whole(0)],
                        t, encoded, 0),
         width |-> t.width,
         height |-> t.height,
         childTileMask |-> 0,
         structure |-> t.structure,
         createdByUpsampling |-> TRUE,
         bufferType |-> t.bufferType])

\* "this._skirtHeight = Math.min(thisLevelMaxError * 4.0, 1000.0)", at a level
\* where the estimated error is large
SkirtHeight == 1000

\* the rectangle of the tile, and the rectangle of its child in column cx and
\* row cy, rows counted from the north
ThisRectangle ==
    [west |-> Whole(-2), east |-> Whole(2), south |-> Whole(0), north |-> Whole(4)]

ChildRectangle(cx, cy) ==
    LET r == ThisRectangle
        halfX == FDiv(FSub(r.east, r.west), Whole(2))
        halfY == FDiv(FSub(r.north, r.south), Whole(2))
        west == FAdd(r.west, FMul(Whole(cx), halfX))
        north == FSub(r.north, FMul(Whole(cy), halfY))
    IN [west |-> west, east |-> FAdd(west, halfX),
        south |-> FSub(north, halfY), north |-> north]

\* the points asked for: a grid over the rectangle, its edges included
Longitudes ==
    {Lerp(ThisRectangle.west, ThisRectangle.east, Frac(k, Steps)) : k \in 0..Steps}

Latitudes ==
    {Lerp(ThisRectangle.south, ThisRectangle.north, Frac(k, Steps)) : k \in 0..Steps}

\* the structures tried: the default one, and one with a scale, an offset and
\* two big-endian elements in a stride of three; each without and with bounds
\* on the encoded height
Structures ==
    {[heightScale |-> lay[1], heightOffset |-> lay[2],
      elementsPerHeight |-> lay[3], stride |-> lay[4],
      elementMultiplier |-> lay[5], isBigEndian |-> lay[6],
      lowestEncodedHeight |-> lo, highestEncodedHeight |-> hi] :
        lay \in {<<1, 0, 1, 1, 256, FALSE>>, <<2, 5, 2, 3, 16, TRUE>>},
        lo \in {{}, {Whole(2)}},
        hi \in {{}, {Whole(4)}}}

\* the heights of the rasters tried, north row first: 10, 20, 30, ... for seed
\* 0, and a pattern of heights from 0 to 6 for the others
Sample(seed, k) ==
    IF seed = 0 THEN Whole(10 * (k + 1)) ELSE Whole((seed * (k + 1) * (k + 2)) % 7)

\* the buffer that holds the heights of a raster in the layout of a structure
Packed(seed, width, height, st, bufferType) ==
    UpsampledHeights(
        [k \in 0..(width * height * st.stride - 1) |-> Whole(0)],
        [width |-> width, height |-> height, structure |-> st, bufferType |-> bufferType],
        [k \in 0..(width * height - 1) |-> Sample(seed, k)], 0)

\* the options given besides the buffer, its size and its structure
Extras == {<<>>, [childTileMask |-> 5, createdByUpsampling |-> TRUE]}

HeightEvent(op, args, result) == [op |-> op, args |-> args, result |-> result]

HeightInit ==
    /\ \E width \in 2..MaxSide, height \in 2..MaxSide, seed \in 0..MaxSeed,
          st \in Structures, bufferType \in {"Uint8Array", "Float32Array"},
          extra \in Extras :
            tile = HeightmapTerrainData(
                     [buffer |-> Packed(seed, width, height, st, bufferType),
                      width |-> width, height |-> height, structure |-> st,
                      bufferType |-> bufferType] @@ extra)
    /\ dir = Directory("terrain", "terrain", "plain")
    /\ syncThen = FALSE
    /\ terrainState = [n \in Nodes |-> "UNKNOWN"]
    /\ cache = [n \in Nodes |-> NoEntry]
    /\ lastTidy = 0
    /\ now = 0
    /\ terrainPromises = [n \in Nodes |-> 0]
    /\ terrainRequests = [n \in Nodes |-> 0]
    /\ fetches = <<>>
    /\ jobs = <<>>
    /\ handed = {}
    /\ failed = {}
    /\ last = HeightEvent("new", <<>>, {})

\* createMesh and the completion of its tessellation: the skirt height is set,
\* the mesh is stored and the buffer is released
Tessellate(exaggeration) ==
    /\ tile.buffer # Undefined
    /\ tile' = [tile EXCEPT
            !.skirtHeight = SkirtHeight,
            !.mesh = [vertices |-> TessellatedVertices(tile.buffer, tile.structure,
                                      tile.width, tile.height, SkirtHeight, exaggeration),
                      exaggeration |-> exaggeration],
            !.buffer = Undefined]
    /\ last' = HeightEvent("createMesh", <<exaggeration>>, {})
    /\ ProviderIdle

\* interpolateHeight(rectangle, longitude, latitude): the height returned, and
\* the place in its cell the triangle formula was given
InterpolateHeightAt(longitude, latitude) ==
    /\ LET cell == IF tile.mesh.vertices # Undefined
                   THEN MeshCell(tile.skirtHeight, ThisRectangle, tile.width,
                                 tile.height, longitude, latitude)
                   ELSE RasterCell(ThisRectangle, tile.width, tile.height,
                                   longitude, latitude)
       IN last' = HeightEvent("interpolateHeight", <<longitude, latitude>>,
                    {[height |-> InterpolateHeight(tile, ThisRectangle, longitude, latitude),
                      dx |-> cell.dx, dy |-> cell.dy,
                      lowerRight |-> LowerRight(cell.dx, cell.dy)]})
    /\ UNCHANGED tile
    /\ ProviderIdle

\* upsample(tilingScheme, thisX, thisY, thisLevel, 2 * thisX + cx, 2 * thisY + cy,
\* thisLevel + 1): nothing without a mesh, else the tile of the child and the
\* heights that were encoded into it
UpsampleChild(cx, cy) ==
    /\ last' = HeightEvent("upsample", <<cx, cy>>,
                IF tile.mesh.vertices = Undefined THEN {}
                ELSE LET encoded == Encoded(tile, ThisRectangle, ChildRectangle(cx, cy))
                     IN {[data |-> Upsampled(tile, encoded), encoded |-> encoded]})
    /\ UNCHANGED tile
    /\ ProviderIdle

\* a tile that is tessellated at some time and asked for heights at any time
HeightNext ==
    \/ \E exaggeration \in 1..2 : Tessellate(exaggeration)
    \/ \E longitude \in Longitudes, latitude \in Latitudes :
            InterpolateHeightAt(longitude, latitude)

HeightSpec == HeightInit /\ [][HeightNext]_vars

\* a tile that is tessellated at some time and upsampled at any time
UpsampleNext ==
    \/ \E exaggeration \in 1..2 : Tessellate(exaggeration)
    \/ \E cx \in 0..1, cy \in 0..1 : UpsampleChild(cx, cy)

UpsampleSpec == HeightInit /\ [][UpsampleNext]_vars

----------------------------------------------------------------------------
(* Properties *)

Unsettled(f) == fetches[f].stage \in {"fetching", "decoding"}

\* the fetches of q whose shared promise has not settled
InFlight(q) == {f \in 1..Len(fetches) : fetches[f].q = q /\ Unsettled(f)}

\* the quad keys whose buffers the fulfilled fetch f stored in the cache
Delivered(f) ==
    {fetches[f].q} \cup
    {Child(fetches[f].q, j) : j \in StoredChildren(dir, fetches[f].q, fetches[f].count)}

RequestOps ==
    {"RequestNotExist", "RequestCacheHit", "RequestFlat", "RequestNone",
     "RequestNoVersion", "RequestAttach", "RequestThrottled", "RequestIssue"}

\* C1: for every fetch target q at most one fetch+decode is unsettled at any
\* time, it is the one registered under q, and the calls that resolve to q
\* meanwhile are attached to it
C1_OneFetchPerTarget ==
    \A q \in Nodes :
        /\ Cardinality(InFlight(q)) <= 1
        /\ \A f \in InFlight(q) : terrainPromises[q] = f

\* C1 witness: a second call has attached to the unsettled fetch of its target
C1_Witness ==
    \E f \in 1..Len(fetches) : Unsettled(f) /\ fetches[f].waiters # <<>>

\* C2: no call attached to a fulfilled fetch that delivered the buffer of its
\* tile finds the cache empty
C2_EveryCallGetsData ==
    \A i \in 1..Len(jobs) :
        (jobs[i].kind = "otherwise" /\ fetches[jobs[i].fid].stage = "fulfilled")
            => jobs[i].call.path \notin Delivered(jobs[i].fid)

\* C3: a terrain state changes only from UNKNOWN; SELF, PARENT and NONE are final
C3_TerminalStatesFinal ==
    [][\A n \in Nodes :
        terrainState[n] # "UNKNOWN" => terrainState'[n] = terrainState[n]]_vars

\* C4: every get that returns a buffer removes its entry and returns a buffer no
\* earlier get has returned
C4_SingleConsumption ==
    [][last'.op \in {"RequestCacheHit", "RunThenHit"} =>
        /\ handed' # handed
        /\ cache[last'.path].buffer \in handed'
        /\ cache'[last'.path] = NoEntry]_vars

\* C4 witness: buffers of one decode have been handed to a call on arrival and to
\* a later call from the cache
C4_Witness ==
    /\ last.op = "RequestCacheHit"
    /\ Cardinality(handed) >= 2

\* C5: an entry of terrainPromises names an unsettled fetch, but for the moment
\* between the settlement and the always() handler that runs first; when any
\* continuation of a call runs, the entries of its target are gone
C5_EntryRemovedOnSettle ==
    /\ \A q \in Nodes :
        terrainPromises[q] # 0 =>
            \/ Unsettled(terrainPromises[q])
            \/ /\ jobs # <<>>
               /\ Head(jobs).kind = "always"
               /\ Head(jobs).fid = terrainPromises[q]
    /\ \A i \in 1..Len(jobs) :
        (jobs[1].kind # "always") =>
            /\ terrainPromises[fetches[jobs[i].fid].q] = 0
            /\ terrainRequests[fetches[jobs[i].fid].q] = 0

\* C5 witness: the continuation of a call attached to a cancelled fetch is about to run
C5_Witness ==
    /\ jobs # <<>>
    /\ Head(jobs).kind = "then"
    /\ fetches[Head(jobs).fid].reason = "cancel"

\* C6: a successful decode of q with count children stores buffer 0 under q and
\* buffer j+1 under q+j for every child j below count that has metadata, sets q
\* to SELF and those children to PARENT, and leaves every other quad key's
\* cache entry and state as they were
C6_DecodeStores ==
    [][last'.op = "DecodeOk" =>
        LET f == Head(jobs').fid
            q == fetches'[f].q
            count == fetches'[f].count
            kids == {Child(q, j) : j \in 0..(count - 1)} \cap {n \in Nodes : dir[n] # "absent"}
        IN /\ cache'[q] = [buffer |-> <<f, 0>>, timestamp |-> now]
           /\ terrainState'[q] = "SELF"
           /\ \A j \in 0..(count - 1) :
                Child(q, j) \in kids =>
                    /\ cache'[Child(q, j)] = [buffer |-> <<f, j + 1>>, timestamp |-> now]
                    /\ terrainState'[Child(q, j)] = "PARENT"
           /\ \A n \in Nodes \ (kids \cup {q}) :
                cache'[n] = cache[n] /\ terrainState'[n] = terrainState[n]]_vars

\* C6 witness: a decode has delivered the buffer of a child that has metadata
C6_Witness ==
    /\ last.op = "DecodeOk"
    /\ fetches[Head(jobs).fid].count = 2
    /\ Cardinality(Delivered(Head(jobs).fid)) = 2

\* C7: a call rejected for a reason other than cancellation leaves the quad key
\* it asked for in state NONE
C7_FailureSetsNone ==
    last.op \in {"RunOtherwiseNone", "RunOtherwiseThrowRead"}
        => terrainState[last.path] = "NONE"

\* C8: no fetch is issued by a call for a quad key for which an earlier call
\* was rejected other than by cancellation
C8_FailFastAfterFailure ==
    last.op = "RequestIssue" => last.path \notin failed

\* C9: a call for a quad key in state NONE is rejected at once, with no terrain
\* data and no fetch
C9_NoneFailsAtOnce ==
    [][(last'.op \in RequestOps /\ terrainState[last'.path] = "NONE")
        => last'.op = "RequestNone"]_vars

\* C10: after a cancelled fetch every call on its shared promise is rejected as
\* cancelled, and no terrain state changes
C10_CancelRejectsAll ==
    [][(jobs # <<>> /\ fetches[Head(jobs).fid].reason = "cancel") =>
        /\ terrainState' = terrainState
        /\ last'.op \in {"RunAlways", "RunThenMiss", "RunThenSkip",
                         "RunOtherwiseCancelled"}]_vars

\* C11: a fetch is never cancelled while calls other than the one whose request
\* was cancelled are attached to it: those calls receive the outcome of the fetch
C11_CancelSparesWaiters ==
    [][last'.op = "FetchCancel" =>
        \A f \in 1..Len(fetches) :
            fetches'[f].reason = "cancel" => fetches[f].waiters = <<>>]_vars

\* C12: a throttled call registers nothing under q, issues no fetch and sets no
\* quad key to SELF, PARENT or NONE
C12_ThrottledLeavesRetryable ==
    [][last'.op = "RequestThrottled" =>
        /\ terrainPromises' = terrainPromises
        /\ terrainRequests' = terrainRequests
        /\ fetches' = fetches
        /\ jobs' = jobs
        /\ \A n \in Nodes :
            terrainState'[n] \in {"SELF", "PARENT", "NONE"}
                => terrainState'[n] = terrainState[n]]_vars

\* C12 witness: a call was throttled while another fetch was in flight
C12_Witness ==
    /\ last.op = "RequestThrottled"
    /\ terrainState[last.path] = "UNKNOWN"
    /\ \E f \in 1..Len(fetches) : Unsettled(f)

\* C13: a call for a quad key in state UNKNOWN with no terrain at it or above it
\* resolves with the flat tile, issues no fetch and registers nothing
C13_FlatWithoutFetch ==
    [][(/\ last'.op \in RequestOps
        /\ InfoDefined(dir, last'.path)
        /\ terrainState[last'.path] = "UNKNOWN"
        /\ ~AncestorHasTerrain(dir, last'.path)) =>
            /\ last'.op = "RequestFlat"
            /\ fetches' = fetches
            /\ terrainPromises' = terrainPromises
            /\ terrainRequests' = terrainRequests]_vars

\* C13 witness: the flat tile was returned for a tile above the terrain while
\* the terrain below it was being fetched
C13_Witness ==
    /\ last.op = "RequestFlat"
    /\ terrainState[last.path] = "UNKNOWN"
    /\ ~HasTerrain(dir, last.path)
    /\ fetches # <<>>

\* the nearest quad key at or above n that has terrain
NearestTerrain(d, n) ==
    LET ks == {k \in 1..Len(n) : HasTerrain(d, SubSeq(n, 1, k))}
    IN SubSeq(n, 1, CHOOSE k \in ks : \A m \in ks : m <= k)

\* C14: a call for a quad key in state UNKNOWN without terrain of its own and
\* with terrain above it fetches from the nearest ancestor that has terrain
C14_NearestAncestorTarget ==
    [][(/\ last'.op \in RequestOps
        /\ InfoDefined(dir, last'.path)
        /\ terrainState[last'.path] = "UNKNOWN"
        /\ cache[last'.path] = NoEntry
        /\ ~HasTerrain(dir, last'.path)
        /\ AncestorHasTerrain(dir, last'.path)) =>
            /\ last'.op \in {"RequestIssue", "RequestAttach", "RequestThrottled"}
            /\ last'.op = "RequestIssue" =>
                fetches'[Len(fetches')].q = NearestTerrain(dir, last'.path)]_vars

\* an entry leaves the cache unread only once it is older than the interval
KeptWithinInterval ==
    \A k \in Nodes :
        (cache[k] # NoEntry /\ cache'[k] = NoEntry /\ ~(last'.op = "get" /\ last'.path = k))
            => now - cache[k].timestamp > TidyInterval

\* C15 as stated: an unread entry is present until the interval has elapsed
\* since its insertion, and every tidy() called after that evicts it
C15_EvictedByAnyTidy ==
    [][/\ KeptWithinInterval
       /\ last'.op = "tidy" =>
            \A k \in Nodes :
                (cache[k] # NoEntry /\ now - cache[k].timestamp > TidyInterval)
                    => cache'[k] = NoEntry]_vars

\* C15: an unread entry is present until the interval has elapsed since its
\* insertion, and a tidy() called after that evicts it when the interval has
\* also elapsed since the last sweep
C15_EvictedBySweep ==
    [][/\ KeptWithinInterval
       /\ (last'.op = "tidy" /\ now - lastTidy > TidyInterval) =>
            \A k \in Nodes :
                (cache[k] # NoEntry /\ now - cache[k].timestamp > TidyInterval)
                    => cache'[k] = NoEntry]_vars

\* C15 witness: a sweep has evicted one entry and kept a younger one, itself as
\* old as the interval
C15_Witness ==
    /\ last.op = "tidy"
    /\ last.evicted # {}
    /\ \E k \in Nodes : cache[k] # NoEntry /\ now - cache[k].timestamp = TidyInterval

\* C16: the mask handed out with a tile in state SELF is the bitmask the
\* directory reports, and with a tile in state PARENT it has bit i set exactly
\* when child i has metadata and has terrain itself
C16_ChildMask ==
    last.op = "computeChildMask" =>
        /\ terrainState[last.path] = "SELF" => last.mask = last.bits
        /\ terrainState[last.path] = "PARENT" =>
            /\ last.mask \in 0..15
            /\ \A i \in 0..3 :
                Bit(last.mask, i) <=>
                    /\ Child(last.path, i) \in DOMAIN dir
                    /\ dir[Child(last.path, i)] = "terrain"

\* C16 witness: for a tile in state PARENT the mask was synthesized from two
\* children with terrain, against a directory bitmask naming the other two
C16_Witness ==
    /\ last.op = "computeChildMask"
    /\ terrainState[last.path] = "PARENT"
    /\ last.bits = 10
    /\ last.mask = 5

\* the arguments of the last isChildAvailable name a child of (thisX, thisY)
OfChild ==
    /\ last.op = "isChildAvailable"
    /\ last.args[3] - 2 * last.args[1] \in {0, 1}
    /\ last.args[4] - 2 * last.args[2] \in {0, 1}

\* the bits of a mask that are set
BitsOf(mask) == {i \in 0..3 : (mask \div (2 ^ i)) % 2 = 1}

\* C17 as stated: isChildAvailable returns bit 0 for child (2x, 2y), bit 1 for
\* (2x+1, 2y), bit 2 for (2x, 2y+1) and bit 3 for (2x+1, 2y+1)
C17_BitsFromSouthRow ==
    OfChild =>
        LET east == last.args[3] - 2 * last.args[1]
            row == last.args[4] - 2 * last.args[2]
        IN last.result <=> (east + 2 * row) \in BitsOf(tile.childTileMask)

\* C17: isChildAvailable returns bit 2 for child (2x, 2y), bit 3 for (2x+1, 2y),
\* bit 0 for (2x, 2y+1) and bit 1 for (2x+1, 2y+1)
C17_BitsFromNorthRow ==
    OfChild =>
        LET east == last.args[3] - 2 * last.args[1]
            row == last.args[4] - 2 * last.args[2]
            position == CASE <<east, row>> = <<0, 0>> -> 2
                          [] <<east, row>> = <<1, 0>> -> 3
                          [] <<east, row>> = <<0, 1>> -> 0
                          [] <<east, row>> = <<1, 1>> -> 1
        IN last.result <=> position \in BitsOf(tile.childTileMask)

\* C17 witness: child (2x, 2y+1) of tile (1, 1) was found available in a tile
\* whose mask has bit 0 alone
C17_Witness ==
    /\ last = TileEvent("isChildAvailable", <<1, 1, 2, 3>>, TRUE)
    /\ tile.childTileMask = 1

\* C18: isChildAvailable tests the bit of the quadrant found by comparing
\* childX with 2*thisX (east when different) and childY with 2*thisY (south
\* when different), with south-west 0, south-east 1, north-west 2, north-east 3
C18_QuadrantBit ==
    last.op = "isChildAvailable" =>
        LET east == last.args[3] # 2 * last.args[1]
            south == last.args[4] # 2 * last.args[2]
            quadrant == IF south THEN (IF east THEN 1 ELSE 0)
                        ELSE (IF east THEN 3 ELSE 2)
        IN last.result = (quadrant \in BitsOf(tile.childTileMask))

\* C18 witness: the north-east child of tile (0, 0) was found available in a
\* tile whose mask has bit 3 alone
C18_Witness ==
    /\ last = TileEvent("isChildAvailable", <<0, 0, 1, 0>>, TRUE)
    /\ tile.childTileMask = 8

\* C19: for coordinates that name none of the four children isChildAvailable
\* returns the availability of the south-east child, bit 1
C19_NonChildIsSouthEast ==
    (last.op = "isChildAvailable" /\ ~OfChild) =>
        (last.result <=> 1 \in BitsOf(tile.childTileMask))

\* C20: the raw buffer and the mesh are never both retained
C20_BufferOrMesh == ~(tile.buffer /\ tile.mesh # 0)

\* C20 witness: a second tessellation, scheduled while the buffer was still
\* held, has stored its mesh after the first one released the buffer
C20_Witness ==
    /\ last = TileEvent("tessellated", <<>>, "mesh")
    /\ tile.mesh = 2
    /\ ~tile.buffer

\* C21: upsample on a tile without a mesh returns no tile and leaves the tile as
\* it was; for a direct child it returns undefined
C21_NoMeshNoChild ==
    [][(last'.op = "upsample" /\ tile.mesh = 0) =>
        /\ last'.result # "tile"
        /\ last'.args[1] <= 1 => last'.result = "undefined"
        /\ tile' = tile]_vars

\* C21 witness: upsample returned undefined while the tessellation was pending
C21_Witness ==
    /\ last = TileEvent("upsample", <<1>>, "undefined")
    /\ tile.pending # <<>>
    /\ tile.buffer

\* C22: upsample through more than one level throws and returns no tile
C22_OneLevelOnly ==
    (last.op = "upsample" /\ last.args[1] > 1) => last.result = "throws"

\* C22 witness: upsample through two levels threw on a tile that has its mesh
C22_Witness ==
    /\ last = TileEvent("upsample", <<2>>, "throws")
    /\ tile.mesh # 0

\* C30: a call that finds neither the quad key nor its parent to fetch from
\* leaves the quad key in state NONE
C30_UnresolvedSetsNone ==
    [][last'.op = "RequestNoVersion" => terrainState'[last'.path] = "NONE"]_vars

\* C26: the height read from a slot after a whole height below
\* elementMultiplier ^ elementsPerHeight was written to it is that height
C26_RoundTrip ==
    (last.op = "getHeight" /\ tile.written) => last.result = Whole(tile.h)

\* C26 witness: a height of three digits, all of them not zero, was read back
\* from the second slot of a little-endian buffer
C26_Witness ==
    /\ last = CodecEvent("getHeight", Whole(22))
    /\ tile.written
    /\ tile.h = 22
    /\ tile.index = 1
    /\ tile.structure = [elementsPerHeight |-> 3, stride |-> 3,
                         elementMultiplier |-> 3, isBigEndian |-> FALSE]

\* the four children of a tile, by column and row
Children == {<<cx, cy>> : cx \in 0..1, cy \in 0..1}

\* the corners of a rectangle, as <<longitude, latitude>>
Corners(r) == {<<lon, lat>> : lon \in {r.west, r.east}, lat \in {r.south, r.north}}

\* the tile and the encoded heights that the last call, an upsample, returned
Returned == CHOOSE r \in last.result : TRUE

\* C23: a tile returned by upsample has child mask 0, so that none of its four
\* children is available, reports that it was created by upsampling, and has
\* the width, the height and the structure of its parent; a tile constructed
\* without the createdByUpsampling option reports that it was not
C23_UpsampledTile ==
    /\ (last.op = "upsample" /\ last.result # {}) =>
            /\ Returned.data.childTileMask = 0
            /\ \A c \in Children :
                    ~IsChildAvailable(Returned.data.childTileMask, 0, 0, c[1], c[2])
            /\ WasCreatedByUpsampling(Returned.data)
            /\ Returned.data.width = tile.width
            /\ Returned.data.height = tile.height
            /\ Returned.data.structure = tile.structure
    /\ "createdByUpsampling" \notin tile.given => ~WasCreatedByUpsampling(tile)

\* C23 witness: a tile constructed without the option, of child mask 15, was
\* tessellated and upsampled to its north-east child
C23_Witness ==
    /\ last.op = "upsample"
    /\ last.args = <<1, 0>>
    /\ last.result # {}
    /\ "createdByUpsampling" \notin tile.given
    /\ tile.childTileMask = 15
    /\ tile.width = 2
    /\ tile.height = 3
    /\ tile.structure.heightScale = 2

\* the height sample of the returned tile at index k, as interpolated from the
\* mesh of the parent, before it is clamped
Interpolated(k) ==
    UpsampledSample(tile, ThisRectangle, ChildRectangle(last.args[1], last.args[2]),
                    k % tile.width, k \div tile.width)

\* C24: a height sample that upsample encodes is not below lowestEncodedHeight
\* and not above highestEncodedHeight when these are configured, is the bound
\* that the interpolated value lay beyond, and is the interpolated value when it
\* lay beyond no configured bound; a float buffer holds the sample as encoded
C24_ClampedWhenConfigured ==
    (last.op = "upsample" /\ last.result # {}) =>
        \A k \in DOMAIN Returned.encoded :
            LET st == tile.structure
                encoded == Returned.encoded[k]
                below == \E b \in st.lowestEncodedHeight : FLess(Interpolated(k), b)
                above == \E b \in st.highestEncodedHeight : FLess(b, Interpolated(k))
            IN /\ \A b \in st.lowestEncodedHeight : ~FLess(encoded, b)
               /\ \A b \in st.highestEncodedHeight : ~FLess(b, encoded)
               /\ below => encoded \in st.lowestEncodedHeight
               /\ above => encoded \in st.highestEncodedHeight
               /\ (~below /\ ~above) => encoded = Interpolated(k)
               /\ tile.bufferType = "Float32Array" =>
                    GetHeight(Returned.data.buffer, st, k) = encoded

\* C24 witness: with only the lower bound configured, one sample was raised to
\* the bound and another, above it, was encoded as interpolated
C24_Witness ==
    /\ last.op = "upsample"
    /\ last.result # {}
    /\ tile.structure.lowestEncodedHeight # {}
    /\ tile.structure.highestEncodedHeight = {}
    /\ \E k \in DOMAIN Returned.encoded :
            /\ FLess(Interpolated(k), Whole(2))
            /\ Returned.encoded[k] = Whole(2)
    /\ \E k \in DOMAIN Returned.encoded :
            /\ FLess(Whole(4), Interpolated(k))
            /\ Returned.encoded[k] = Interpolated(k)

\* C25: after upsample to a child, interpolateHeight of the child at each corner
\* of the rectangle of the child returns what interpolateHeight of the parent,
\* which holds its mesh, returns at the same longitude and latitude, the latter
\* taken to the encoded height, clamped as upsample clamps, and back
C25_ChildCornersMatchParent ==
    (last.op = "upsample" /\ last.result # {}) =>
        LET st == tile.structure
            childRectangle == ChildRectangle(last.args[1], last.args[2])
            OfParent(c) == InterpolateHeight(tile, ThisRectangle, c[1], c[2])
            AsEncoded(h) ==
                FDiv(FSub(h, Whole(st.heightOffset)), Whole(st.heightScale))
            AsHeight(e) ==
                FAdd(FMul(e, Whole(st.heightScale)), Whole(st.heightOffset))
        IN \A c \in Corners(childRectangle) :
                InterpolateHeight(Returned.data, childRectangle, c[1], c[2])
                    = AsHeight(Clamped(st, AsEncoded(OfParent(c))))

\* the answer of the last call, an interpolateHeight
Answer == CHOOSE r \in last.result : TRUE

\* the index in the buffer of the sample at a corner <<longitude, latitude>> of
\* the rectangle of the tile, the north row first
CornerIndex(c) ==
    (IF c[2] = ThisRectangle.north THEN 0 ELSE (tile.height - 1) * tile.width)
    + (IF c[1] = ThisRectangle.west THEN 0 ELSE tile.width - 1)

CornerHeights ==
    IF tile.mesh.vertices = Undefined
    THEN LET cell == RasterCell(ThisRectangle, tile.width, tile.height,
                                last.args[1], last.args[2])
             corner(index) == GetHeight(tile.buffer, tile.structure, index)
         IN [sw |-> corner(cell.south * cell.width + cell.west),
             nw |-> corner(cell.north * cell.width + cell.west),
             ne |-> corner(cell.north * cell.width + cell.east)]
    ELSE LET cell == MeshCell(tile.skirtHeight, ThisRectangle, tile.width, tile.height,
                              last.args[1], last.args[2])
             corner(index) ==
                FDiv(FSub(FDiv(tile.mesh.vertices[index], Whole(tile.mesh.exaggeration)),
                          Whole(tile.structure.heightOffset)),
                     Whole(tile.structure.heightScale))
         IN [sw |-> corner(cell.south * cell.width + cell.west),
             nw |-> corner(cell.north * cell.width + cell.west),
             ne |-> corner(cell.north * cell.width + cell.east)]

\* sw + dx * (ne - nw) + dy * (nw - sw)
UpperLeft(dx, dy, c) ==
    FAdd(FAdd(c.sw, FMul(dx, FSub(c.ne, c.nw))), FMul(dy, FSub(c.nw, c.sw)))

\* the raster of 2 by 2 samples 10, 20, 30, 40, north row first, with the
\* default structure
IsTenToForty ==
    /\ tile.width = 2
    /\ tile.height = 2
    /\ tile.mesh.vertices = Undefined
    /\ \A k \in 0..3 : GetHeight(tile.buffer, tile.structure, k) = Whole(10 * (k + 1))
    /\ tile.structure.heightScale = 1
    /\ tile.structure.heightOffset = 0
    /\ tile.structure.elementsPerHeight = 1
    /\ tile.structure.stride = 1
    /\ tile.structure.elementMultiplier = 256
    /\ ~tile.structure.isBigEndian

\* the centre of the rectangle of the tile
Centre ==
    <<FDiv(FAdd(ThisRectangle.west, ThisRectangle.east), Whole(2)),
      FDiv(FAdd(ThisRectangle.south, ThisRectangle.north), Whole(2))>>

\* C28: when dx = dy, interpolateHeight takes the branch of the upper left
\* triangle and its result comes from sw + dx * (ne - nw) + dy * (nw - sw), from
\* the raster and from the mesh alike; the raster of 2 by 2 samples 10, 20, 30,
\* 40 with the default structure gives 25 at the centre of the tile
C28_DiagonalIsUpperLeft ==
    last.op = "interpolateHeight" =>
        /\ Answer.dx = Answer.dy =>
            /\ ~Answer.lowerRight
            /\ Answer.height =
                    IF tile.mesh.vertices = Undefined
                    THEN FAdd(FMul(UpperLeft(Answer.dx, Answer.dy, CornerHeights),
                                   Whole(tile.structure.heightScale)),
                              Whole(tile.structure.heightOffset))
                    ELSE UpperLeft(Answer.dx, Answer.dy, CornerHeights)
        /\ (IsTenToForty /\ last.args = Centre) => Answer.height = Whole(25)

\* C28 witness: the centre of the raster 10, 20, 30, 40 was asked for, with
\* dx = dy = 1/2, and 25 was returned
C28_Witness ==
    /\ last.op = "interpolateHeight"
    /\ last.args = Centre
    /\ IsTenToForty
    /\ Answer.dx = Frac(1, 2)
    /\ Answer.dy = Frac(1, 2)
    /\ Answer.height = Whole(25)

\* C29: interpolateHeight of a tile that holds a mesh tessellated with
\* exaggeration 1 returns, at every point, what the raster the mesh was made
\* from gives there, times heightScale plus heightOffset: the height that
\* interpolateHeight returned before the tile was tessellated
C29_SameUnits ==
    (last.op = "interpolateHeight" /\ tile.mesh.vertices # Undefined
        /\ tile.mesh.exaggeration = 1) =>
            Answer.height =
                FAdd(FMul(InterpolateRaster(tile.samples, tile.structure, ThisRectangle,
                                            tile.width, tile.height,
                                            last.args[1], last.args[2]),
                          Whole(tile.structure.heightScale)),
                     Whole(tile.structure.heightOffset))

\* C31: a quad key in state PARENT has a parent, the quad key its terrain is
\* fetched from, in state SELF
C31_ParentOfSelf ==
    \A n \in Nodes :
        terrainState[n] = "PARENT" => (Len(n) > 1 /\ terrainState[Parent(n)] = "SELF")

\* C32: a tidy() called no more than the interval after the last sweep (or the
\* construction) evicts nothing and leaves the cache and _lastTidy as they were;
\* a later one sets _lastTidy to the time of the call, evicts exactly the
\* entries older than the interval and keeps every other entry as it was
C32_SweepOncePerInterval ==
    [][last'.op = "tidy" =>
        IF now - lastTidy <= TidyInterval
        THEN /\ cache' = cache
             /\ lastTidy' = lastTidy
             /\ last'.evicted = {}
        ELSE /\ lastTidy' = now
             /\ \A k \in Nodes :
                    cache'[k] = IF cache[k] # NoEntry /\ now - cache[k].timestamp > TidyInterval
                                THEN NoEntry ELSE cache[k]
             /\ last'.evicted =
                    {k \in Nodes : cache[k] # NoEntry /\ now - cache[k].timestamp > TidyInterval}]_vars

\* C32 witness: a second sweep, the interval after the first, evicted one entry
\* and kept another that was exactly as old as the interval
C32_Witness ==
    /\ last.op = "tidy"
    /\ last.evicted = {<<0>>}
    /\ lastTidy = now
    /\ now = 2 * TidyInterval + 2
    /\ cache[<<0, 1>>] # NoEntry
    /\ now - cache[<<0, 1>>].timestamp = TidyInterval

\* C33: once a tessellation of the tile has been started or the tile holds a
\* mesh, no createMesh starts another tessellation, and a mesh that is stored
\* is never replaced
C33_MeshProducedOnce ==
    [][/\ (last'.op = "createMesh" /\ (tile.scheduled > 0 \/ tile.mesh # 0)) =>
            tile'.scheduled = tile.scheduled
       /\ tile.mesh # 0 => tile'.mesh = tile.mesh]_vars

\* C34: the tile holds its raw buffer or its mesh, and not both, in every
\* state, and interpolateHeight always finds one of them to read
C34_OneRepresentation ==
    /\ tile.buffer # (tile.mesh # 0)
    /\ last.op = "interpolateHeight" => last.result # "throws"

\* the vertex at index lies on the outer ring of the grid of the mesh, the skirt
OnSkirt(index) ==
    LET arrayWidth == tile.width + 2
        arrayHeight == tile.height + 2
    IN \/ index \div arrayWidth \in {0, arrayHeight - 1}
       \/ index % arrayWidth \in {0, arrayWidth - 1}

\* the weight each corner height has in the formula of the triangle taken
Weights(dx, dy, lowerRight) ==
    IF lowerRight
    THEN [sw |-> FSub(Whole(1), dx), se |-> FSub(dx, dy), nw |-> Whole(0), ne |-> dy]
    ELSE [sw |-> FSub(Whole(1), dy), se |-> Whole(0), nw |-> FSub(dy, dx), ne |-> dx]

\* the mesh of the tile with every vertex of the skirt moved to another height
SkirtMoved ==
    [tile.mesh EXCEPT !.vertices =
        [index \in DOMAIN tile.mesh.vertices |->
            IF OnSkirt(index) THEN Whole(7777 + index) ELSE tile.mesh.vertices[index]]]

Outstanding(f) == f <= Len(fetches) /\ fetches[f] # Retired

\* C36: when every fetch and every decode settles, every call that was returned
\* the promise of a fetch, as its issuer or attached to it, is resolved or
\* rejected in the end
C36_EveryCallSettles ==
    \A f \in FetchIds : Outstanding(f) ~> ~Outstanding(f)

\* C36 witness: the calls of the one fetch issued have all settled, the issuer
\* resolved with its buffer and the call attached to it, for a child the
\* decode brought no buffer for, rejected
C36_Witness ==
    /\ last.op = "RunOtherwiseNone"
    /\ fetches = <<Retired>>
    /\ handed = {<<1, 0>>}
    /\ failed = {<<0, 1>>}

\* C37: for a quad key with metadata and no cache entry, a call of
\* requestTileGeometry made where getTileDataAvailable returns false is
\* rejected and issues no fetch, and one made where it returns true returns the
\* flat tile or reaches the fetch: it attaches, is throttled or issues
C37_AvailabilityAgrees ==
    [][(last'.op \in RequestOps /\ InfoDefined(dir, last'.path)
            /\ cache[last'.path] = NoEntry) =>
        IF GetTileDataAvailable(dir, terrainState, last'.path)
        THEN last'.op \in {"RequestFlat", "RequestAttach", "RequestThrottled", "RequestIssue"}
        ELSE /\ last'.op \in {"RequestNone", "RequestNoVersion"}
             /\ fetches' = fetches
             /\ terrainPromises' = terrainPromises]_vars

\* C37 witness: a call was rejected for a tile in state UNKNOWN that has no
\* terrain of its own or in its parent, where getTileDataAvailable returns false
C37_Witness ==
    /\ last.op = "RequestNoVersion"
    /\ terrainState[last.path] = "UNKNOWN"
    /\ cache[last.path] = NoEntry
    /\ ~GetTileDataAvailable(dir, terrainState, last.path)
    /\ \E n \in Nodes : terrainState[n] = "SELF"

\* C38: a buffer that a call takes from the cache, at once or when the shared
\* promise resolves, was added no more than the interval before
C38_NoStaleBuffer ==
    [][last'.op \in {"RequestCacheHit", "RunThenHit"} =>
        now - cache[last'.path].timestamp <= TidyInterval]_vars

====
